---------------------------- MODULE Spec2Model ----------------------------
(***************************************************************************)
(* Battle session (server/src/rooms/BattleRoom.ts) driving the combat      *)
(* simulation (server/src/mechanics/CombatResolver.ts).                    *)
(*                                                                         *)
(* Number representation.  The source computes in IEEE doubles; the model  *)
(* is fixed-point with three decimals:                                     *)
(*   - HP of a building in 1/1000 HP (field hp; maxHp and the aggregates   *)
(*     totalBuildingHp / destroyedBuildingHp stay in whole HP, they are    *)
(*     integers in the source),                                            *)
(*   - unit positions in 1/1000 tile (fields row, col),                    *)
(*   - timeRemaining in milliseconds.                                      *)
(* Damage and step per tick are exact in this representation for every     *)
(* unit of UNITS (1000, 1125, 1200, 1500 and 100, 125, 200, 50).  The      *)
(* normalised step of moveUnitTowards is rounded down to 1/1000 tile.      *)
(* calculateDestructionPercent and calculateLoot floor a product of doubles *)
(* that can fall just below a whole number; the model takes 1 off the      *)
(* exact floor in exactly those cases (PercentRoundedDown,                 *)
(* LootRoundedDown).                                                       *)
(*                                                                         *)
(* One step of the model is one run-to-completion callback of the room: a  *)
(* message handler, onLeave, or the interval's callback.  The teardown     *)
(* that endBattle schedules (disconnect after 5 s) is not modelled.        *)
(***************************************************************************)
EXTENDS Integers, Sequences, FiniteSets, TLC

VARIABLES
    state,            \* BattleState: the schema broadcast to the client
    simulation,       \* BattleRoom.simulation
    remainingTroops,  \* BattleRoom.remainingTroops
    defenderResources,\* BattleRoom.defenderResources
    tickInterval,     \* BattleRoom.tickInterval is set (TRUE) or null (FALSE)
    unitIdCounter,    \* CombatResolver's module-level counter
    reply,            \* what the last handler sent to the requesting client
    options,          \* what onCreate was given and loaded: troops, base, time
    handlers          \* the message types registered with onMessage

vars == <<state, simulation, remainingTroops, defenderResources,
          tickInterval, unitIdCounter, reply, options, handlers>>

---------------------------------------------------------------------------
(* shared/constants.ts *)

GRID_SIZE == 20
DEPLOY_ZONE_DEPTH == 2
BATTLE_TICK_RATE == 20
BATTLE_MAX_DURATION == 180
STAR_ONE == 50
STAR_TWO == 75
STAR_THREE == 100
\* LOOT_PERCENTAGE = 0.2, as a percentage
LOOT_PERCENTAGE == 20
\* validateTroops(options.troops, 50)
MAX_TROOPS == 50

\* BUILDING_HP_MULTIPLIER = 1.25 = 5/4
BUILDING_HP_MULTIPLIER == [num |-> 5, den |-> 4]

BUILDINGS ==
    [ townCenter |-> [width |-> 3, height |-> 3, hp |-> 2000, isDefensive |-> FALSE],
      house      |-> [width |-> 2, height |-> 2, hp |-> 400,  isDefensive |-> FALSE],
      farm       |-> [width |-> 2, height |-> 2, hp |-> 500,  isDefensive |-> FALSE],
      goldMine   |-> [width |-> 2, height |-> 2, hp |-> 500,  isDefensive |-> FALSE],
      oilWell    |-> [width |-> 2, height |-> 2, hp |-> 600,  isDefensive |-> FALSE] ]

\* attackSpeed and moveSpeed are in tenths (1.5 -> 15, 2.5 -> 25, 0.8 -> 8)
UNITS ==
    [ warrior  |-> [hp |-> 100, damage |-> 20,  attackSpeed10 |-> 10, range |-> 1,
                    moveSpeed10 |-> 20, preferredTarget |-> "any"],
      archer   |-> [hp |-> 60,  damage |-> 15,  attackSpeed10 |-> 15, range |-> 4,
                    moveSpeed10 |-> 25, preferredTarget |-> "any"],
      cavalry  |-> [hp |-> 150, damage |-> 30,  attackSpeed10 |-> 8,  range |-> 1,
                    moveSpeed10 |-> 40, preferredTarget |-> "building"],
      catapult |-> [hp |-> 80,  damage |-> 100, attackSpeed10 |-> 3,  range |-> 6,
                    moveSpeed10 |-> 10, preferredTarget |-> "defensive"] ]

UnitTypes == DOMAIN UNITS

\* unit.targetId === undefined
NoTarget == ""
\* unit.targetRow / unit.targetCol === undefined
NoCoord == -1

---------------------------------------------------------------------------
(* Arithmetic helpers *)

Max(a, b) == IF a >= b THEN a ELSE b
Min(a, b) == IF a <= b THEN a ELSE b

RECURSIVE Pow(_, _)
Pow(b, e) == IF e <= 0 THEN 1 ELSE b * Pow(b, e - 1)

\* floor(sqrt(n)) by bisection on [lo, hi), lo*lo <= n < hi*hi
RECURSIVE SqrtSearch(_, _, _)
SqrtSearch(n, lo, hi) ==
    IF hi - lo <= 1 THEN lo
    ELSE LET mid == (lo + hi) \div 2
         IN  IF mid * mid <= n THEN SqrtSearch(n, mid, hi)
                               ELSE SqrtSearch(n, lo, mid)

\* Math.sqrt, rounded down; arguments stay below 2 * (GRID_SIZE * 1000 + 1000)^2
ISqrt(n) == SqrtSearch(n, 0, 32768)

---------------------------------------------------------------------------
(* CombatResolver.ts: buildings *)

\* Math.floor(baseHp * Math.pow(BUILDING_HP_MULTIPLIER, level - 1)), in whole HP
calculateBuildingHp(type, level) ==
    (BUILDINGS[type].hp * Pow(BUILDING_HP_MULTIPLIER.num, level - 1))
        \div Pow(BUILDING_HP_MULTIPLIER.den, level - 1)

\* .filter((b) => !b.constructionEndsAt).map(...): constructionEndsAt is 0 when
\* the field is absent
RECURSIVE initializeBattleBuildings(_)
initializeBattleBuildings(buildings) ==
    IF buildings = <<>> THEN <<>>
    ELSE LET b == Head(buildings)
             hp == calculateBuildingHp(b.type, b.level)
             rest == initializeBattleBuildings(Tail(buildings))
         IN  IF b.constructionEndsAt = 0
             THEN <<[id |-> b.id, type |-> b.type, row |-> b.row, col |-> b.col,
                     level |-> b.level, hp |-> hp * 1000, maxHp |-> hp,
                     destroyed |-> FALSE]>> \o rest
             ELSE rest

RECURSIVE calculateTotalBuildingHp(_)
calculateTotalBuildingHp(buildings) ==
    IF buildings = <<>> THEN 0
    ELSE Head(buildings).maxHp + calculateTotalBuildingHp(Tail(buildings))

createSimulation(defenderBuildings) ==
    LET buildings == initializeBattleBuildings(defenderBuildings)
    IN  [ buildings |-> buildings,
          units |-> <<>>,
          tick |-> 0,
          totalBuildingHp |-> calculateTotalBuildingHp(buildings),
          destroyedBuildingHp |-> 0 ]

---------------------------------------------------------------------------
(* CombatResolver.ts: geometry *)

\* variant: the deploy-zone test left out
isValidDeployPosition_NoZone(row, col, buildings) ==
    /\ ~(row < 0 \/ row >= GRID_SIZE \/ col < 0 \/ col >= GRID_SIZE)
    /\ \A i \in 1..Len(buildings) :
          LET building == buildings[i]
              bDef == BUILDINGS[building.type]
          IN  \/ building.destroyed
              \/ ~( /\ row >= building.row
                    /\ row < building.row + bDef.height
                    /\ col >= building.col
                    /\ col < building.col + bDef.width )

\* row and col of a deploy request are whole tiles
isValidDeployPosition(row, col, buildings) ==
    /\ ~(row < 0 \/ row >= GRID_SIZE \/ col < 0 \/ col >= GRID_SIZE)
    /\ \/ row < DEPLOY_ZONE_DEPTH
       \/ row >= GRID_SIZE - DEPLOY_ZONE_DEPTH
       \/ col < DEPLOY_ZONE_DEPTH
       \/ col >= GRID_SIZE - DEPLOY_ZONE_DEPTH
    /\ \A i \in 1..Len(buildings) :
          LET building == buildings[i]
              bDef == BUILDINGS[building.type]
          IN  \/ building.destroyed
              \/ ~( /\ row >= building.row
                    /\ row < building.row + bDef.height
                    /\ col >= building.col
                    /\ col < building.col + bDef.width )

\* gridDistance squared, in (1/1000 tile)^2; the callers only compare distances
gridDistanceSq(r1, c1, r2, c2) == (r2 - r1) * (r2 - r1) + (c2 - c1) * (c2 - c1)

\* in 1/1000 tile: row + height / 2, col + width / 2
getBuildingCenter(building) ==
    [ row |-> building.row * 1000 + BUILDINGS[building.type].height * 500,
      col |-> building.col * 1000 + BUILDINGS[building.type].width * 500 ]

\* indices into buildings of the candidates, in list order
Candidates(unit, buildings) ==
    LET alive == {i \in 1..Len(buildings) : ~buildings[i].destroyed}
        defensive == {i \in alive : BUILDINGS[buildings[i].type].isDefensive}
    IN  IF UNITS[unit.type].preferredTarget = "defensive" /\ defensive # {}
        THEN defensive ELSE alive

\* gridDistance(unit.row, unit.col, center.row, center.col), squared
CenterDistSq(unit, building) ==
    gridDistanceSq(unit.row, unit.col,
                   getBuildingCenter(building).row, getBuildingCenter(building).col)

\* variant: dist <= closestDist, so that the last of equally near candidates wins
RECURSIVE ClosestFrom_LastWins(_, _, _, _, _)
ClosestFrom_LastWins(unit, buildings, cand, i, closest) ==
    IF i > Len(buildings) THEN closest
    ELSE IF /\ i \in cand
            /\ \/ closest = 0
               \/ CenterDistSq(unit, buildings[i])
                      <= CenterDistSq(unit, buildings[closest])
         THEN ClosestFrom_LastWins(unit, buildings, cand, i + 1, i)
         ELSE ClosestFrom_LastWins(unit, buildings, cand, i + 1, closest)

\* for (const building of candidates) from list index i on; closest is the
\* index held so far, 0 while closest is null and closestDist is Infinity
RECURSIVE ClosestFrom(_, _, _, _, _)
ClosestFrom(unit, buildings, cand, i, closest) ==
    IF i > Len(buildings) THEN closest
    ELSE IF /\ i \in cand
            /\ \/ closest = 0
               \/ CenterDistSq(unit, buildings[i])
                      < CenterDistSq(unit, buildings[closest])
         THEN ClosestFrom(unit, buildings, cand, i + 1, i)
         ELSE ClosestFrom(unit, buildings, cand, i + 1, closest)

\* index of the building findTarget returns, 0 for null
findTarget(unit, buildings) ==
    ClosestFrom(unit, buildings, Candidates(unit, buildings), 1, 0)

isInRange(unit, building) ==
    LET def == UNITS[unit.type]
        bDef == BUILDINGS[building.type]
        closestRow == Max(building.row * 1000,
                          Min(unit.row, (building.row + bDef.height - 1) * 1000))
        closestCol == Max(building.col * 1000,
                          Min(unit.col, (building.col + bDef.width - 1) * 1000))
    IN  gridDistanceSq(unit.row, unit.col, closestRow, closestCol)
            <= (def.range * 1000) * (def.range * 1000)

\* def.moveSpeed * deltaTime with deltaTime = 1 / BATTLE_TICK_RATE, in 1/1000 tile
StepPerTick(type) == (UNITS[type].moveSpeed10 * 100) \div BATTLE_TICK_RATE

\* |d| / dist * speed rounded down, with the sign of d
StepComponent(d, dist, speed) ==
    IF d >= 0 THEN (d * speed) \div dist ELSE 0 - (((0 - d) * speed) \div dist)

\* variant: the dist <= speed branch left out, the unit always takes a full step
moveUnitTowards_NoClamp(unit, targetRow, targetCol) ==
    LET speed == StepPerTick(unit.type)
        dx == targetCol - unit.col
        dy == targetRow - unit.row
        distSq == dx * dx + dy * dy
    IN  IF distSq = 0 THEN unit
        ELSE LET dist == Max(1, ISqrt(distSq))
             IN  [unit EXCEPT !.col = unit.col + StepComponent(dx, dist, speed),
                              !.row = unit.row + StepComponent(dy, dist, speed)]

moveUnitTowards(unit, targetRow, targetCol) ==
    LET speed == StepPerTick(unit.type)
        dx == targetCol - unit.col
        dy == targetRow - unit.row
        distSq == dx * dx + dy * dy
    IN  IF distSq <= speed * speed
        THEN [unit EXCEPT !.row = targetRow, !.col = targetCol]
        ELSE LET dist == ISqrt(distSq)
             IN  [unit EXCEPT !.col = unit.col + StepComponent(dx, dist, speed),
                              !.row = unit.row + StepComponent(dy, dist, speed)]

\* def.damage * def.attackSpeed * deltaTime, in 1/1000 HP
calculateDamage(unit) ==
    (UNITS[unit.type].damage * UNITS[unit.type].attackSpeed10 * 100)
        \div BATTLE_TICK_RATE

---------------------------------------------------------------------------
(* CombatResolver.ts: the tick *)

\* variant: the held target is never looked up, findTarget is asked every tick
HeldTarget_Forgotten(unit, buildings) == 0

\* variant: the find without its !b.destroyed
HeldTarget_IgnoresDestroyed(unit, buildings) ==
    LET found == {i \in 1..Len(buildings) : buildings[i].id = unit.targetId}
    IN  IF unit.targetId = NoTarget \/ found = {} THEN 0
        ELSE CHOOSE i \in found : \A j \in found : i <= j

\* simulation.buildings.find((b) => b.id === unit.targetId && !b.destroyed),
\* as an index, 0 when nothing is found or the unit holds no target
HeldTarget(unit, buildings) ==
    LET found == {i \in 1..Len(buildings) :
                     buildings[i].id = unit.targetId /\ ~buildings[i].destroyed}
    IN  IF unit.targetId = NoTarget \/ found = {} THEN 0
        ELSE CHOOSE i \in found : \A j \in found : i <= j

ClearTarget(unit) ==
    [unit EXCEPT !.targetId = NoTarget, !.targetRow = NoCoord, !.targetCol = NoCoord]

\* variant: destroyedBuildingHp grows by target.hp, read after it was set to 0
AttackOrMove_AddsZeroedHp(sim, i, t, aimed) ==
    LET target == sim.buildings[t]
        center == getBuildingCenter(target)
    IN  IF isInRange(aimed, target)
        THEN LET hp == target.hp - calculateDamage(aimed)
             IN  IF hp <= 0
                 THEN [sim EXCEPT
                         !.buildings[t] = [target EXCEPT !.hp = 0,
                                                         !.destroyed = TRUE],
                         !.destroyedBuildingHp = @ + 0,
                         !.units[i] =
                             ClearTarget([aimed EXCEPT !.state = "attacking"])]
                 ELSE [sim EXCEPT
                         !.buildings[t] = [target EXCEPT !.hp = hp],
                         !.units[i] = [aimed EXCEPT !.state = "attacking"]]
        ELSE [sim EXCEPT
                !.units[i] = moveUnitTowards([aimed EXCEPT !.state = "moving"],
                                             center.row, center.col)]

\* variant: target.hp is not raised to 0 when it falls below
AttackOrMove_NoClamp(sim, i, t, aimed) ==
    LET target == sim.buildings[t]
        center == getBuildingCenter(target)
    IN  IF isInRange(aimed, target)
        THEN LET hp == target.hp - calculateDamage(aimed)
             IN  IF hp <= 0
                 THEN [sim EXCEPT
                         !.buildings[t] = [target EXCEPT !.hp = hp,
                                                         !.destroyed = TRUE],
                         !.destroyedBuildingHp = @ + target.maxHp,
                         !.units[i] =
                             ClearTarget([aimed EXCEPT !.state = "attacking"])]
                 ELSE [sim EXCEPT
                         !.buildings[t] = [target EXCEPT !.hp = hp],
                         !.units[i] = [aimed EXCEPT !.state = "attacking"]]
        ELSE [sim EXCEPT
                !.units[i] = moveUnitTowards([aimed EXCEPT !.state = "moving"],
                                             center.row, center.col)]

\* variant: destroyedBuildingHp grows by the HP each attack removes
AttackOrMove_CountsDamage(sim, i, t, aimed) ==
    LET target == sim.buildings[t]
        center == getBuildingCenter(target)
    IN  IF isInRange(aimed, target)
        THEN LET hp == target.hp - calculateDamage(aimed)
                 removed == (target.hp - Max(0, hp)) \div 1000
             IN  IF hp <= 0
                 THEN [sim EXCEPT
                         !.buildings[t] = [target EXCEPT !.hp = 0,
                                                         !.destroyed = TRUE],
                         !.destroyedBuildingHp = @ + removed,
                         !.units[i] =
                             ClearTarget([aimed EXCEPT !.state = "attacking"])]
                 ELSE [sim EXCEPT
                         !.buildings[t] = [target EXCEPT !.hp = hp],
                         !.destroyedBuildingHp = @ + removed,
                         !.units[i] = [aimed EXCEPT !.state = "attacking"]]
        ELSE [sim EXCEPT
                !.units[i] = moveUnitTowards([aimed EXCEPT !.state = "moving"],
                                             center.row, center.col)]

\* variant: an attacking unit loses the HP it takes off its target, and dies
\* at zero
AttackOrMove_UnitHurt(sim, i, t, aimed) ==
    LET target == sim.buildings[t]
        center == getBuildingCenter(target)
        hurt == aimed.hp - 1
    IN  IF isInRange(aimed, target)
        THEN [sim EXCEPT
                !.buildings[t] =
                    [target EXCEPT !.hp = Max(0, target.hp - calculateDamage(aimed)),
                                   !.destroyed = target.hp <= calculateDamage(aimed)],
                !.destroyedBuildingHp =
                    IF target.hp <= calculateDamage(aimed) THEN @ + target.maxHp
                    ELSE @,
                !.units[i] = [aimed EXCEPT
                                !.hp = Max(0, hurt),
                                !.state = IF hurt <= 0 THEN "dead" ELSE "attacking"]]
        ELSE [sim EXCEPT
                !.units[i] = moveUnitTowards([aimed EXCEPT !.state = "moving"],
                                             center.row, center.col)]

\* the unit aimed at target t attacks it or moves towards it (lines 297-317)
AttackOrMove(sim, i, t, aimed) ==
    LET target == sim.buildings[t]
        center == getBuildingCenter(target)
    IN  IF isInRange(aimed, target)
        THEN LET hp == target.hp - calculateDamage(aimed)
             IN  IF hp <= 0
                 THEN [sim EXCEPT
                         !.buildings[t] = [target EXCEPT !.hp = 0,
                                                         !.destroyed = TRUE],
                         !.destroyedBuildingHp = @ + target.maxHp,
                         !.units[i] =
                             ClearTarget([aimed EXCEPT !.state = "attacking"])]
                 ELSE [sim EXCEPT
                         !.buildings[t] = [target EXCEPT !.hp = hp],
                         !.units[i] = [aimed EXCEPT !.state = "attacking"]]
        ELSE [sim EXCEPT
                !.units[i] = moveUnitTowards([aimed EXCEPT !.state = "moving"],
                                             center.row, center.col)]

\* the unit once its target is settled (lines 274-286): the held target when
\* it still stands, else the one findTarget returns, whose id and center the
\* unit then records
Aim(unit, buildings, held, t) ==
    IF held # 0 \/ t = 0 THEN unit
    ELSE [unit EXCEPT !.targetId = buildings[t].id,
                      !.targetRow = getBuildingCenter(buildings[t]).row,
                      !.targetCol = getBuildingCenter(buildings[t]).col]

\* variant: a unit without a target keeps the state it had
ProcessUnit_KeepsState(sim, i) ==
    CHOOSE result \in
        { IF t = 0
          THEN [sim EXCEPT !.units[i] = ClearTarget(unit)]
          ELSE AttackOrMove(sim, i, t, Aim(unit, sim.buildings, held, t)) :
            <<unit, held, t>> \in
                { <<u, h, IF h # 0 THEN h ELSE findTarget(u, sim.buildings)>> :
                      <<u, h>> \in { <<sim.units[i],
                                       HeldTarget(sim.units[i], sim.buildings)>> } } }
        : TRUE

\* the body of processTick's loop for the unit at index i; the intermediate
\* values are bound through singleton sets so that each is computed once
ProcessUnit(sim, i) ==
    CHOOSE result \in
        { IF t = 0
          THEN [sim EXCEPT !.units[i] = ClearTarget([unit EXCEPT !.state = "idle"])]
          ELSE AttackOrMove(sim, i, t, Aim(unit, sim.buildings, held, t)) :
            <<unit, held, t>> \in
                { <<u, h, IF h # 0 THEN h ELSE findTarget(u, sim.buildings)>> :
                      <<u, h>> \in { <<sim.units[i],
                                       HeldTarget(sim.units[i], sim.buildings)>> } } }
        : TRUE

\* for (const unit of aliveUnits), units i..Len in order; aliveUnits is filtered
\* before the loop
RECURSIVE ProcessUnits(_, _, _)
ProcessUnits(sim, alive, i) ==
    IF i > Len(sim.units) THEN sim
    ELSE IF i \in alive
         THEN CHOOSE result \in { ProcessUnits(next, alive, i + 1) :
                                     next \in {ProcessUnit(sim, i)} } : TRUE
         ELSE ProcessUnits(sim, alive, i + 1)

processTick(sim) ==
    LET aliveUnits == {i \in 1..Len(sim.units) : sim.units[i].state # "dead"}
    IN  [ProcessUnits(sim, aliveUnits, 1) EXCEPT !.tick = @ + 1]

---------------------------------------------------------------------------
(* CombatResolver.ts: outcome *)

\* The percentages n for which the double (n / 100) * 100 is below n:
\* 0.29 * 100 = 28.999999999999996, 0.57 * 100 = 56.99999999999999,
\* 0.58 * 100 = 57.99999999999999.  For every other n of 0..100 the product is
\* n exactly.
PercentRoundedDown == {29, 57, 58}

\* Math.floor((destroyedBuildingHp / totalBuildingHp) * 100) in doubles.  When
\* the quotient is not a whole number of hundredths, the product is at least
\* 1 / totalBuildingHp away from an integer, far more than the rounding error,
\* and the floor is the exact one.  When it is n hundredths exactly, the
\* division yields the double nearest n / 100 and the product is (n / 100) * 100.
calculateDestructionPercent(sim) ==
    IF sim.totalBuildingHp = 0 THEN 100
    ELSE LET exact == (sim.destroyedBuildingHp * 100) \div sim.totalBuildingHp
         IN  IF /\ (sim.destroyedBuildingHp * 100) % sim.totalBuildingHp = 0
                /\ exact \in PercentRoundedDown
             THEN exact - 1
             ELSE exact

\* variant: the thresholds compared with > instead of >=
calculateStars_Exclusive(destructionPercent) ==
    IF destructionPercent > STAR_THREE THEN 3
    ELSE IF destructionPercent > STAR_TWO THEN 2
    ELSE IF destructionPercent > STAR_ONE THEN 1
    ELSE 0

calculateStars(destructionPercent) ==
    IF destructionPercent >= STAR_THREE THEN 3
    ELSE IF destructionPercent >= STAR_TWO THEN 2
    ELSE IF destructionPercent >= STAR_ONE THEN 1
    ELSE 0

\* the amounts of a resource a defender holds in the inputs tried
ResourceAmounts == {0, 100, 777, 1000}

\* The pairs <<amount, destructionPercent>>, amount in ResourceAmounts, for
\* which the double amount * lootFactor is below the whole number
\* amount * destructionPercent / 500, lootFactor being the double
\* (destructionPercent / 100) * LOOT_PERCENTAGE: 0.7 * 0.2 =
\* 0.13999999999999999, 0.35 * 0.2 = 0.06999999999999999, and so on.  For
\* every other pair over ResourceAmounts and 0..100 the floor is the exact one.
LootRoundedDown ==
    { <<100, 35>>, <<100, 70>>,
      <<1000, 29>>, <<1000, 35>>, <<1000, 57>>, <<1000, 58>>,
      <<1000, 69>>, <<1000, 70>> }

\* variant: the factor taken from the part left standing
LootOf_Undestroyed(amount, destructionPercent) ==
    (amount * (100 - destructionPercent) * LOOT_PERCENTAGE) \div 10000

\* Math.floor(resource * lootFactor) in doubles, for amount in ResourceAmounts
LootOf(amount, destructionPercent) ==
    LET exact == (amount * destructionPercent * LOOT_PERCENTAGE) \div 10000
    IN  IF <<amount, destructionPercent>> \in LootRoundedDown
        THEN exact - 1
        ELSE exact

calculateLoot(destructionPercent, resources) ==
    [ food |-> LootOf(resources.food, destructionPercent),
      gold |-> LootOf(resources.gold, destructionPercent),
      oil  |-> LootOf(resources.oil, destructionPercent) ]

maxTicks == BATTLE_MAX_DURATION * BATTLE_TICK_RATE

\* variant: simulation.tick > maxTicks
isBattleOver_StrictBudget(sim) ==
    IF \A i \in 1..Len(sim.buildings) : sim.buildings[i].destroyed THEN TRUE
    ELSE IF {i \in 1..Len(sim.units) : sim.units[i].state # "dead"} = {} THEN TRUE
    ELSE IF sim.tick > maxTicks THEN TRUE
    ELSE FALSE

\* variant: the time limit left out
isBattleOver_NoBudget(sim) ==
    IF \A i \in 1..Len(sim.buildings) : sim.buildings[i].destroyed THEN TRUE
    ELSE IF {i \in 1..Len(sim.units) : sim.units[i].state # "dead"} = {} THEN TRUE
    ELSE FALSE

isBattleOver(sim) ==
    IF \A i \in 1..Len(sim.buildings) : sim.buildings[i].destroyed THEN TRUE
    ELSE IF {i \in 1..Len(sim.units) : sim.units[i].state # "dead"} = {} THEN TRUE
    ELSE IF sim.tick >= maxTicks THEN TRUE
    ELSE FALSE

createUnit(type, row, col, id) ==
    [ id |-> id, type |-> type, hp |-> UNITS[type].hp, maxHp |-> UNITS[type].hp,
      state |-> "idle", row |-> row * 1000, col |-> col * 1000,
      targetId |-> NoTarget, targetRow |-> NoCoord, targetCol |-> NoCoord ]

RECURSIVE SumCounts(_)
SumCounts(troops) ==
    IF troops = <<>> THEN 0 ELSE Head(troops).count + SumCounts(Tail(troops))

\* variant: the check for negative counts left out
validateTroops_NegativeAllowed(troops, maxTroops) ==
    LET totalTroops == SumCounts(troops)
    IN  IF totalTroops = 0 THEN FALSE
        ELSE IF totalTroops > maxTroops THEN FALSE
        ELSE \A i \in 1..Len(troops) : troops[i].type \in UnitTypes

\* validateTroops(troops, maxTroops).valid
validateTroops(troops, maxTroops) ==
    LET totalTroops == SumCounts(troops)
    IN  IF totalTroops = 0 THEN FALSE
        ELSE IF totalTroops > maxTroops THEN FALSE
        ELSE \A i \in 1..Len(troops) :
                troops[i].type \in UnitTypes /\ ~(troops[i].count < 0)

---------------------------------------------------------------------------
(* Inputs of a session: the defender's base, the troop composition and the  *)
(* requests a client may send.                                             *)

\* largest count of one troop slot in the compositions tried
MaxTroopCount == 1

Building(id, type, row, col, level, endsAt) ==
    [ id |-> id, type |-> type, row |-> row, col |-> col, level |-> level,
      constructionEndsAt |-> endsAt ]

EmptyBase == <<>>
FarmBase == << Building("b1", "farm", 5, 5, 1, 0) >>
\* Date.now() when onCreate runs, in ms
CreatedAt == 100000

\* a house in the deploy zone, a farm, a gold mine whose construction ends a
\* minute after the session is created and an oil well whose construction
\* ended a minute before
VillageBase == << Building("b1", "house", 1, 3, 1, 0),
                  Building("b2", "farm", 5, 5, 1, 0),
                  Building("b3", "goldMine", 10, 10, 1, CreatedAt + 60000),
                  Building("b4", "oilWell", 14, 14, 1, CreatedAt - 60000) >>
\* 3906 HP: outlasts the tick budget against a single warrior
FortressBase == << Building("b1", "townCenter", 8, 8, 4, 0) >>

Slot(type, count) == [type |-> type, count |-> count]

TroopOptions ==
    { troops \in { << Slot("warrior", w), Slot("catapult", c) >> :
                       w \in 0..MaxTroopCount, c \in 0..MaxTroopCount } :
        validateTroops(troops, MAX_TROOPS) }

\* every composition against the empty base and the village; a single warrior
\* against the fortress; a warrior and a catapult against the farm
Scenarios ==
    { [base |-> b, troops |-> t] : b \in {EmptyBase, VillageBase}, t \in TroopOptions }
    \cup { [base |-> FortressBase, troops |-> << Slot("warrior", 1) >>],
           [base |-> FarmBase,
            troops |-> << Slot("warrior", 1), Slot("catapult", 1) >>] }

DefenderResourceOptions == { [food |-> 1000, gold |-> 777, oil |-> 0] }

\* unit types a deployUnit message may name; "archer" is never in a composition
DeployTypes == {"warrior", "catapult", "archer"}

\* (row, col) of a deployUnit message: off the grid, in the deploy zone, on the
\* village's house, in the middle of the grid
DeployPositions == { <<-1, 3>>, <<0, 3>>, <<1, 3>>, <<10, 10>>, <<0, 20>> }

---------------------------------------------------------------------------
(* BattleRoom.ts *)

BuildingSchema(building) ==
    [ id |-> building.id, buildingType |-> building.type, row |-> building.row,
      col |-> building.col, level |-> building.level, hp |-> building.hp,
      maxHp |-> building.maxHp, destroyed |-> building.destroyed ]

UnitSchema(unit) ==
    [ id |-> unit.id, unitType |-> unit.type, hp |-> unit.hp, maxHp |-> unit.maxHp,
      state |-> unit.state, row |-> unit.row, col |-> unit.col,
      targetId |-> "" ]

\* for (const slot of options.troops) this.remainingTroops.set(slot.type, slot.count)
RECURSIVE StoreTroops(_, _)
StoreTroops(map, troops) ==
    IF troops = <<>> THEN map
    ELSE LET slot == Head(troops)
             set == [t \in DOMAIN map \cup {slot.type} |->
                        IF t = slot.type THEN slot.count ELSE map[t]]
         IN  StoreTroops(set, Tail(troops))

\* what onCreate works on: options.troops, the defender's base and resources as
\* Base.findOne returns them, and the time of the call
Options(troops, base, resources) ==
    [troops |-> troops, base |-> base, resources |-> resources, now |-> CreatedAt]

\* a field that holds null or undefined
Null == [null |-> TRUE]

\* the fields of a room before onCreate has run
NewRoom ==
    [ state |-> Null, simulation |-> Null, remainingTroops |-> <<>>,
      defenderResources |-> [food |-> 0, gold |-> 0, oil |-> 0],
      handlers |-> {} ]

\* the fields of a room once onCreate has run to its end on opts
Created(opts) ==
    LET sim == createSimulation(opts.base)
    IN  [ state |-> [ phase |-> "setup",
                      buildings |-> [i \in 1..Len(sim.buildings) |->
                                        BuildingSchema(sim.buildings[i])],
                      units |-> <<>>,
                      tick |-> 0,
                      destructionPercent |-> 0,
                      timeRemaining |-> BATTLE_MAX_DURATION * 1000,
                      result |-> [ destructionPercent |-> 0, stars |-> 0,
                                   loot |-> [food |-> 0, gold |-> 0, oil |-> 0] ] ],
          simulation |-> sim,
          remainingTroops |-> StoreTroops(<<>>, opts.troops),
          defenderResources |-> opts.resources,
          handlers |-> {"deployUnit", "startBattle", "endBattle"} ]

\* the room holds the fields of r
Holds(r) ==
    /\ state = r.state
    /\ simulation = r.simulation
    /\ remainingTroops = r.remainingTroops
    /\ defenderResources = r.defenderResources
    /\ handlers = r.handlers

\* onCreate with valid options, a defender base and both players found
Init ==
    \E sc \in Scenarios, res \in DefenderResourceOptions :
        /\ validateTroops(sc.troops, MAX_TROOPS)
        /\ options = Options(sc.troops, sc.base, res)
        /\ Holds(Created(Options(sc.troops, sc.base, res)))
        /\ tickInterval = FALSE
        /\ unitIdCounter = 0
        /\ reply = "none"

\* this.remainingTroops.get(message.unitType) || 0
Remaining(unitType) ==
    IF unitType \in DOMAIN remainingTroops THEN remainingTroops[unitType] ELSE 0

\* deployUnit(simulation, type, row, col): the simulation with the unit pushed,
\* or the simulation itself when the position is refused (null returned)
deployUnit(sim, type, row, col, id) ==
    IF ~isValidDeployPosition(row, col, sim.buildings) THEN sim
    ELSE [sim EXCEPT !.units = Append(@, createUnit(type, row, col, id))]

Reject(code) ==
    /\ reply' = code
    /\ UNCHANGED <<state, simulation, remainingTroops, defenderResources,
                   options, handlers, tickInterval, unitIdCounter>>

\* variant: deploys refused in ended only
DeployPhase_AlsoRunning == state.phase = "ended"
\* variant: deploys refused in running only
DeployPhase_OnlyRunning == state.phase = "running"
\* this.state.phase !== 'setup'
DeployWrongPhase == state.phase # "setup"

\* variant: remaining < 0
NoTroopsLeft_OffByOne(unitType) == Remaining(unitType) < 0
\* remaining <= 0
NoTroopsLeft(unitType) == Remaining(unitType) <= 0

\* variant: the count is not decremented
AcceptDeploy_NoDecrement(unitType, sim) ==
    /\ simulation' = sim
    /\ unitIdCounter' = unitIdCounter + 1
    /\ remainingTroops' = remainingTroops
    /\ state' = [state EXCEPT
                   !.units = Append(@, UnitSchema(sim.units[Len(sim.units)]))]
    /\ reply' = "none"
    /\ UNCHANGED <<defenderResources, options, handlers, tickInterval>>
\* the bookkeeping of an accepted deploy: count, schema
AcceptDeploy(unitType, sim) ==
    /\ simulation' = sim
    /\ unitIdCounter' = unitIdCounter + 1
    /\ remainingTroops' =
           [remainingTroops EXCEPT ![unitType] = Remaining(unitType) - 1]
    /\ state' = [state EXCEPT
                   !.units = Append(@, UnitSchema(sim.units[Len(sim.units)]))]
    /\ reply' = "none"
    /\ UNCHANGED <<defenderResources, options, handlers, tickInterval>>

handleDeployUnit(unitType, row, col) ==
    IF DeployWrongPhase THEN Reject("INVALID_PHASE")
    ELSE IF NoTroopsLeft(unitType) THEN Reject("NO_TROOPS")
    ELSE LET sim == deployUnit(simulation, unitType, row, col, unitIdCounter)
         IN  IF sim = simulation THEN Reject("INVALID_POSITION")
             ELSE AcceptDeploy(unitType, sim)

\* variant: the phase check left out
startBattle_NoPhaseGuard ==
    /\ reply' = "none"
    /\ IF Len(state.units) = 0
       THEN UNCHANGED <<state, tickInterval>>
       ELSE /\ state' = [state EXCEPT !.phase = "running"]
            /\ tickInterval' = TRUE
    /\ UNCHANGED <<simulation, remainingTroops, defenderResources, options,
                   handlers, unitIdCounter>>

\* variant: the unit check left out
startBattle_NoUnitCheck ==
    /\ reply' = "none"
    /\ IF state.phase # "setup"
       THEN UNCHANGED <<state, tickInterval>>
       ELSE /\ state' = [state EXCEPT !.phase = "running"]
            /\ tickInterval' = TRUE
    /\ UNCHANGED <<simulation, remainingTroops, defenderResources, options,
                   handlers, unitIdCounter>>

startBattle ==
    /\ reply' = "none"
    /\ IF state.phase # "setup" \/ Len(state.units) = 0
       THEN UNCHANGED <<state, tickInterval>>
       ELSE /\ state' = [state EXCEPT !.phase = "running"]
            /\ tickInterval' = TRUE
    /\ UNCHANGED <<simulation, remainingTroops, defenderResources, options,
                   handlers, unitIdCounter>>

\* variant: the units' targets are not copied
syncState_NoTarget(st, sim) ==
    [st EXCEPT
        !.tick = sim.tick,
        !.destructionPercent = calculateDestructionPercent(sim),
        !.units = [i \in 1..Len(st.units) |->
                     IF i <= Len(sim.units)
                     THEN [st.units[i] EXCEPT !.hp = sim.units[i].hp,
                                              !.state = sim.units[i].state,
                                              !.row = sim.units[i].row,
                                              !.col = sim.units[i].col]
                     ELSE st.units[i]],
        !.buildings = [j \in 1..Len(st.buildings) |->
                         LET same == {k \in 1..Len(sim.buildings) :
                                         sim.buildings[k].id = st.buildings[j].id}
                         IN  IF same = {} THEN st.buildings[j]
                             ELSE LET k == CHOOSE k \in same : \A m \in same : m <= k
                                  IN  [st.buildings[j] EXCEPT
                                         !.hp = sim.buildings[k].hp,
                                         !.destroyed = sim.buildings[k].destroyed]]]

\* syncState(): the snapshot st brought up to date with sim
syncState(st, sim) ==
    [st EXCEPT
        !.tick = sim.tick,
        !.destructionPercent = calculateDestructionPercent(sim),
        !.units = [i \in 1..Len(st.units) |->
                     IF i <= Len(sim.units)
                     THEN [st.units[i] EXCEPT !.hp = sim.units[i].hp,
                                              !.state = sim.units[i].state,
                                              !.row = sim.units[i].row,
                                              !.col = sim.units[i].col,
                                              !.targetId = sim.units[i].targetId]
                     ELSE st.units[i]],
        !.buildings = [j \in 1..Len(st.buildings) |->
                         LET same == {k \in 1..Len(sim.buildings) :
                                         sim.buildings[k].id = st.buildings[j].id}
                         IN  IF same = {} THEN st.buildings[j]
                             ELSE LET k == CHOOSE k \in same : \A m \in same : m <= k
                                  IN  [st.buildings[j] EXCEPT
                                         !.hp = sim.buildings[k].hp,
                                         !.destroyed = sim.buildings[k].destroyed]]]

\* variant: the result taken from the snapshot's destructionPercent, which
\* syncState last wrote
endBattle_StaleSnapshot(st, sim) ==
    IF st.phase = "ended" THEN st
    ELSE LET destructionPercent == st.destructionPercent
         IN  [st EXCEPT
                !.phase = "ended",
                !.result = [ destructionPercent |-> destructionPercent,
                             stars |-> calculateStars(destructionPercent),
                             loot |-> calculateLoot(destructionPercent,
                                                    defenderResources) ]]

\* endBattle(): the snapshot st after the battle has ended on sim; the caller
\* clears the interval
endBattle(st, sim) ==
    IF st.phase = "ended" THEN st
    ELSE LET destructionPercent == calculateDestructionPercent(sim)
         IN  [st EXCEPT
                !.phase = "ended",
                !.result = [ destructionPercent |-> destructionPercent,
                             stars |-> calculateStars(destructionPercent),
                             loot |-> calculateLoot(destructionPercent,
                                                    defenderResources) ]]

\* the 'endBattle' message
EndBattle ==
    /\ state' = endBattle(state, simulation)
    /\ tickInterval' = IF state.phase = "ended" THEN tickInterval ELSE FALSE
    /\ reply' = "none"
    /\ UNCHANGED <<simulation, remainingTroops, defenderResources, options,
                   handlers, unitIdCounter>>

\* variant: the running battle is not ended
onLeave_Ignored ==
    /\ reply' = "none"
    /\ UNCHANGED <<state, tickInterval, simulation, remainingTroops,
                   defenderResources, options, handlers, unitIdCounter>>

onLeave ==
    /\ IF state.phase = "running"
       THEN /\ state' = endBattle(state, simulation)
            /\ tickInterval' = FALSE
       ELSE UNCHANGED <<state, tickInterval>>
    /\ reply' = "none"
    /\ UNCHANGED <<simulation, remainingTroops, defenderResources, options,
                   handlers, unitIdCounter>>

\* variant: the callback does not look at the phase
TickCallback_NoPhaseGuard ==
    /\ reply' = "none"
    /\ \E sim \in {processTick(simulation)} :
       \E synced \in {[syncState(state, sim) EXCEPT
                         !.timeRemaining =
                             Max(0, BATTLE_MAX_DURATION * 1000
                                    - (sim.tick * 1000) \div BATTLE_TICK_RATE)]} :
           /\ simulation' = sim
           /\ IF isBattleOver(sim)
              THEN /\ state' = endBattle(synced, sim)
                   /\ tickInterval' = FALSE
              ELSE /\ state' = synced
                   /\ UNCHANGED tickInterval
    /\ UNCHANGED <<remainingTroops, defenderResources, options, handlers,
                   unitIdCounter>>

\* the body of processBattleTick()
TickCallback ==
    /\ reply' = "none"
    /\ IF state.phase # "running"
       THEN UNCHANGED <<state, simulation, tickInterval>>
       ELSE \E sim \in {processTick(simulation)} :
            \E synced \in {[syncState(state, sim) EXCEPT
                              !.timeRemaining =
                                  Max(0, BATTLE_MAX_DURATION * 1000
                                         - (sim.tick * 1000) \div BATTLE_TICK_RATE)]} :
                /\ simulation' = sim
                /\ IF isBattleOver(sim)
                   THEN /\ state' = endBattle(synced, sim)
                        /\ tickInterval' = FALSE
                   ELSE /\ state' = synced
                        /\ UNCHANGED tickInterval
    /\ UNCHANGED <<remainingTroops, defenderResources, options, handlers,
                   unitIdCounter>>

\* the interval's callback, run while the interval is set
processBattleTick == tickInterval /\ TickCallback

\* a callback that runs although the interval is not set: one that was
\* already due when clearInterval was called
lateTick == ~tickInterval /\ TickCallback

DeployUnit ==
    \E unitType \in DeployTypes, pos \in DeployPositions :
        handleDeployUnit(unitType, pos[1], pos[2])

\* a message reaches its handler once onMessage has registered one
Next ==
    \/ "deployUnit" \in handlers /\ DeployUnit
    \/ "startBattle" \in handlers /\ startBattle
    \/ "endBattle" \in handlers /\ EndBattle
    \/ onLeave
    \/ processBattleTick

Spec == Init /\ [][Next]_vars

\* the interval keeps firing while it is set
FairSpec == Spec /\ WF_vars(processBattleTick)

\* the session with callbacks of a cleared interval still arriving
TimerSpec == Init /\ [][Next \/ lateTick]_vars

\* most units other rooms of the process deploy while this session lives
MaxOtherDeploys == 1

\* another BattleRoom of the same process accepts a deploy: its deployUnit
\* calls createUnit, and generateUnitId advances the module-level counter
OtherRoomDeploy ==
    /\ unitIdCounter - Len(simulation.units) < MaxOtherDeploys
    /\ unitIdCounter' = unitIdCounter + 1
    /\ UNCHANGED <<state, simulation, remainingTroops, defenderResources,
                   options, handlers, tickInterval, reply>>

\* the session next to other sessions of the same server process
SharedSpec == Init /\ [][Next \/ OtherRoomDeploy]_vars

---------------------------------------------------------------------------
(* Session creation: a room that onCreate has not yet run on, given what a  *)
(* matchmaking request may carry. attackerId and defenderId are present and *)
(* the defender's base and both players are found.                         *)

\* counts of a slot: negative, zero, and around half and all of the budget
CreateCounts ==
    { -1, 0, 1, MAX_TROOPS \div 2, MAX_TROOPS \div 2 + 1, MAX_TROOPS, MAX_TROOPS + 1 }

\* unit types of a slot; "dragon" is not a key of UNITS
CreateTypes == {"warrior", "archer", "dragon"}

CreateSlots == { Slot(t, c) : t \in CreateTypes, c \in CreateCounts }

\* options.troops: no slot, one slot, two slots
CreateTroops ==
    { <<>> } \cup { <<a>> : a \in CreateSlots }
             \cup { <<a, b>> : a \in CreateSlots, b \in CreateSlots }

CreateBases == {EmptyBase, FarmBase, VillageBase, FortressBase}

\* what a rejected onCreate leaves in reply: the Error it threw
Thrown == "Error"

CreateInit ==
    /\ \E troops \in CreateTroops, base \in CreateBases,
          res \in DefenderResourceOptions :
            options = Options(troops, base, res)
    /\ Holds(NewRoom)
    /\ tickInterval = FALSE
    /\ unitIdCounter = 0
    /\ reply = "none"

onCreate ==
    /\ state = Null
    /\ reply = "none"
    /\ IF ~validateTroops(options.troops, MAX_TROOPS)
       THEN /\ reply' = Thrown
            /\ UNCHANGED <<state, simulation, remainingTroops, defenderResources,
                           handlers>>
       ELSE \E r \in {Created(options)} :
              /\ state' = r.state
              /\ simulation' = r.simulation
              /\ remainingTroops' = r.remainingTroops
              /\ defenderResources' = r.defenderResources
              /\ handlers' = r.handlers
              /\ UNCHANGED reply
    /\ UNCHANGED <<options, tickInterval, unitIdCounter>>

CreateSpec == CreateInit /\ [][onCreate]_vars

---------------------------------------------------------------------------
(* CombatResolver.ts used without a room: a caller builds a simulation,     *)
(* deploys units and calls runFullSimulation, as the module's tests do.     *)
(* The variables of the room stand for the caller's: simulation is the      *)
(* simulation, defenderResources is simulation.attackerResources,          *)
(* state.result is the value runFullSimulation returns, and state.phase is  *)
(* the caller's position: setup before the call, running inside the while   *)
(* loop, ended after the return.                                            *)

\* largest totalBuildingHp of a simulation written out by hand
MaxTotalHp == 1000

\* most units a caller deploys before runFullSimulation
MaxRunUnits == 1

\* simulations written out field by field, with no buildings and no units
HandMadeSimulations ==
    { [ buildings |-> <<>>, units |-> <<>>, tick |-> 0,
        totalBuildingHp |-> t, destroyedBuildingHp |-> d ] :
          <<t, d>> \in { <<0, 0>> } \cup { <<MaxTotalHp, k>> : k \in 0..MaxTotalHp } }

RunResources ==
    { [food |-> f, gold |-> 777, oil |-> o] : f \in {100, 1000}, o \in {0, 100} }

\* (row, col) a caller deploys at: in the deploy zone, on the farm
RunDeployPositions == { <<0, 10>>, <<5, 5>> }

RunInit ==
    /\ simulation \in HandMadeSimulations \cup {createSimulation(FarmBase)}
    /\ defenderResources \in RunResources
    /\ \A amount \in {defenderResources.food, defenderResources.gold,
                      defenderResources.oil} : amount \in ResourceAmounts
    /\ remainingTroops = <<>>
    /\ state = [ phase |-> "setup", buildings |-> <<>>, units |-> <<>>, tick |-> 0,
                 destructionPercent |-> 0,
                 timeRemaining |-> BATTLE_MAX_DURATION * 1000,
                 result |-> [ destructionPercent |-> 0, stars |-> 0,
                              loot |-> [food |-> 0, gold |-> 0, oil |-> 0] ] ]
    /\ tickInterval = FALSE
    /\ unitIdCounter = 0
    /\ reply = "none"
    /\ options = Null
    /\ handlers = {}

\* deployUnit(simulation, 'warrior', row, col) by the caller
RunDeploy ==
    /\ state.phase = "setup"
    /\ Len(simulation.units) < MaxRunUnits
    /\ \E pos \in RunDeployPositions :
          \E sim \in {deployUnit(simulation, "warrior", pos[1], pos[2],
                                 unitIdCounter)} :
              /\ simulation' = sim
              /\ unitIdCounter' = IF sim = simulation THEN unitIdCounter
                                                      ELSE unitIdCounter + 1
    /\ UNCHANGED <<state, remainingTroops, defenderResources, options, handlers,
                   tickInterval, reply>>

\* one iteration of while (!isBattleOver(simulation)) processTick(...)
RunLoop ==
    /\ state.phase \in {"setup", "running"}
    /\ ~isBattleOver(simulation)
    /\ \E sim \in {processTick(simulation)} : simulation' = sim
    /\ state' = [state EXCEPT !.phase = "running"]
    /\ UNCHANGED <<remainingTroops, defenderResources, options, handlers,
                   tickInterval, unitIdCounter, reply>>

\* the loop is left and { destructionPercent, stars, loot } is returned
RunReturn ==
    /\ state.phase \in {"setup", "running"}
    /\ isBattleOver(simulation)
    /\ \E destructionPercent \in {calculateDestructionPercent(simulation)} :
          state' = [state EXCEPT
                      !.phase = "ended",
                      !.result = [ destructionPercent |-> destructionPercent,
                                   stars |-> calculateStars(destructionPercent),
                                   loot |-> calculateLoot(destructionPercent,
                                                          defenderResources) ]]
    /\ UNCHANGED <<simulation, remainingTroops, defenderResources, options,
                   handlers, tickInterval, unitIdCounter, reply>>

RunNext ==
    \/ RunDeploy
    \/ RunLoop
    \/ RunReturn

RunSpec == RunInit /\ [][RunNext]_vars

---------------------------------------------------------------------------
(* findTarget, isInRange, moveUnitTowards and processTick applied to a unit *)
(* and buildings written out by hand, as the module's tests do.  simulation *)
(* is the caller's simulation with its one unit, options is the point the   *)
(* caller passes to moveUnitTowards, and state.phase is the caller's        *)
(* position: setup before any call, running after a processTick, ended      *)
(* after the moveUnitTowards.                                               *)

\* most processTick calls a caller makes in a row
MaxUnitTicks == 2

\* { ...createBuilding(id, type, row, col), hp, maxHp, destroyed }
BattleBuilding(id, type, row, col, destroyed) ==
    [ id |-> id, type |-> type, row |-> row, col |-> col, level |-> 1,
      hp |-> IF destroyed THEN 0 ELSE BUILDINGS[type].hp * 1000,
      maxHp |-> BUILDINGS[type].hp, destroyed |-> destroyed ]

\* building lists: the two of the findTarget tests; two houses with rows of
\* equally distant points; a destroyed house before a standing farm; a farm
UnitLayouts ==
    { << BattleBuilding("far", "farm", 15, 15, FALSE),
         BattleBuilding("near", "house", 5, 5, FALSE) >>,
      << BattleBuilding("b1", "farm", 5, 5, TRUE) >>,
      << BattleBuilding("a", "house", 2, 5, FALSE),
         BattleBuilding("b", "house", 8, 5, FALSE) >>,
      << BattleBuilding("near", "house", 5, 5, TRUE),
         BattleBuilding("far", "farm", 15, 15, FALSE) >>,
      << BattleBuilding("b1", "farm", 5, 5, FALSE) >> }

\* a town center with a farm beside it; a unit deployed at (0.9, 3.5), above
\* the town center's corner, is nearest to the farm
CornerLayout ==
    << BattleBuilding("tc", "townCenter", 1, 3, FALSE),
       BattleBuilding("farm", "farm", 1, 1, FALSE) >>

\* rows and columns of the unit, in 1/1000 tile
UnitCoords == {0, 3000, 4000, 5000, 6000, 7500, 8000, 10000}

\* createUnit(type, ...) placed at (row, col) and, for held # 0, made to hold
\* buildings[held] as processTick records a target
HandMadeUnit(type, row, col, buildings, held) ==
    LET unit == [createUnit(type, 0, 0, 0) EXCEPT !.row = row, !.col = col]
    IN  IF held = 0 THEN unit
        ELSE [unit EXCEPT
                !.targetId = buildings[held].id,
                !.targetRow = getBuildingCenter(buildings[held]).row,
                !.targetCol = getBuildingCenter(buildings[held]).col]

UnitSimulations ==
    { [ buildings |-> buildings,
        units |-> << HandMadeUnit(type, row, col, buildings, held) >>,
        tick |-> 0,
        totalBuildingHp |-> calculateTotalBuildingHp(buildings),
        destroyedBuildingHp |->
            calculateTotalBuildingHp(SelectSeq(buildings, LAMBDA b : b.destroyed)) ] :
          <<buildings, held>> \in
              UNION { { <<l, h>> : h \in 0..Len(l) } : l \in UnitLayouts },
          type \in UnitTypes, row \in UnitCoords, col \in UnitCoords }
    \cup { [ buildings |-> CornerLayout,
             units |-> << HandMadeUnit("warrior", 900, 3500, CornerLayout, 0) >>,
             tick |-> 0,
             totalBuildingHp |-> calculateTotalBuildingHp(CornerLayout),
             destroyedBuildingHp |-> 0 ] }

\* (targetRow, targetCol) passed to moveUnitTowards, in 1/1000 tile: the
\* (0.1, 0.1) and (10, 10) of the tests, and points a step or less away from
\* a unit position
MoveTargets == { <<100, 100>>, <<10000, 10000>>, <<50, 50>>, <<7500, 7600>> }

UnitInit ==
    /\ simulation \in UnitSimulations
    /\ options \in { [targetRow |-> p[1], targetCol |-> p[2]] : p \in MoveTargets }
    /\ defenderResources = [food |-> 0, gold |-> 0, oil |-> 0]
    /\ remainingTroops = <<>>
    /\ state = [ phase |-> "setup", buildings |-> <<>>, units |-> <<>>, tick |-> 0,
                 destructionPercent |-> 0,
                 timeRemaining |-> BATTLE_MAX_DURATION * 1000,
                 result |-> [ destructionPercent |-> 0, stars |-> 0,
                              loot |-> [food |-> 0, gold |-> 0, oil |-> 0] ] ]
    /\ tickInterval = FALSE
    /\ unitIdCounter = 0
    /\ reply = "none"
    /\ handlers = {}

\* processTick(simulation, 1 / BATTLE_TICK_RATE) by the caller
UnitTick ==
    /\ state.phase \in {"setup", "running"}
    /\ simulation.tick < MaxUnitTicks
    /\ \E sim \in {processTick(simulation)} : simulation' = sim
    /\ state' = [state EXCEPT !.phase = "running"]
    /\ UNCHANGED <<remainingTroops, defenderResources, options, handlers,
                   tickInterval, unitIdCounter, reply>>

\* moveUnitTowards(unit, targetRow, targetCol, 1 / BATTLE_TICK_RATE) by the
\* caller
UnitMove ==
    /\ state.phase = "setup"
    /\ simulation' =
          [simulation EXCEPT
              !.units[1] = moveUnitTowards(@, options.targetRow, options.targetCol)]
    /\ state' = [state EXCEPT !.phase = "ended"]
    /\ UNCHANGED <<remainingTroops, defenderResources, options, handlers,
                   tickInterval, unitIdCounter, reply>>

UnitNext ==
    \/ UnitTick
    \/ UnitMove

UnitSpec == UnitInit /\ [][UnitNext]_vars

---------------------------------------------------------------------------
(* Properties *)

PhaseRank(phase) ==
    CASE phase = "setup" -> 0
      [] phase = "running" -> 1
      [] phase = "ended" -> 2

ErrorCodes == {"INVALID_PHASE", "NO_TROOPS", "INVALID_POSITION"}

AllBuildingsDestroyed(sim) ==
    \A i \in 1..Len(sim.buildings) : sim.buildings[i].destroyed

UnitIds(sim) == [i \in 1..Len(sim.units) |-> sim.units[i].id]

\* a step in which the simulation processed a tick
TickProcessed == simulation'.tick = simulation.tick + 1

\* C1: the phase only moves forward in the order setup, running, ended: a
\* running session never returns to setup and an ended session never changes
\* phase again, whatever deployUnit, startBattle, endBattle, disconnect and
\* timer events arrive.
C1_PhaseMonotonic ==
    [][ /\ PhaseRank(state'.phase) >= PhaseRank(state.phase)
        /\ state.phase = "ended" => state'.phase = "ended" ]_vars

\* a deploy request arrived in an ended session that was fought
C1_Witness ==
    /\ state.phase = "ended"
    /\ simulation.tick > 0
    /\ reply = "INVALID_PHASE"

\* C2: 0 <= destroyedBuildingHp <= totalBuildingHp in every state, and
\* destroyedBuildingHp never decreases from one step to the next, also when
\* several units attack the same building in the same tick.
C2_DestroyedHpBounded ==
    [][ /\ 0 <= simulation.destroyedBuildingHp
        /\ simulation.destroyedBuildingHp <= simulation.totalBuildingHp
        /\ 0 <= simulation'.destroyedBuildingHp
        /\ simulation'.destroyedBuildingHp <= simulation'.totalBuildingHp
        /\ simulation'.destroyedBuildingHp >= simulation.destroyedBuildingHp ]_vars

\* right after a tick in which two units hit the same building and the later
\* one destroyed it: the killer's target is cleared, the other still names it
C2_Witness ==
    \E b \in 1..Len(simulation.buildings), i, j \in 1..Len(simulation.units) :
        /\ simulation.buildings[b].destroyed
        /\ i < j
        /\ simulation.units[i].state = "attacking"
        /\ simulation.units[i].targetId = simulation.buildings[b].id
        /\ simulation.units[j].state = "attacking"
        /\ simulation.units[j].targetId = NoTarget
        /\ simulation.destroyedBuildingHp > 0

\* the cases in which the claim has a deploy request refused
OutsideGrid(row, col) == row < 0 \/ row > GRID_SIZE - 1 \/ col < 0 \/ col > GRID_SIZE - 1

InDeployBand(row, col) ==
    \/ row \in 0..(DEPLOY_ZONE_DEPTH - 1)
    \/ row \in (GRID_SIZE - DEPLOY_ZONE_DEPTH)..(GRID_SIZE - 1)
    \/ col \in 0..(DEPLOY_ZONE_DEPTH - 1)
    \/ col \in (GRID_SIZE - DEPLOY_ZONE_DEPTH)..(GRID_SIZE - 1)

OnStandingBuilding(row, col) ==
    \E i \in 1..Len(simulation.buildings) :
        LET b == simulation.buildings[i]
        IN  /\ ~b.destroyed
            /\ row \in b.row..(b.row + BUILDINGS[b.type].height - 1)
            /\ col \in b.col..(b.col + BUILDINGS[b.type].width - 1)

MustReject(unitType, row, col) ==
    \/ state.phase # "setup"
    \/ unitType \notin DOMAIN remainingTroops
    \/ remainingTroops[unitType] = 0
    \/ OutsideGrid(row, col)
    \/ ~InDeployBand(row, col)
    \/ OnStandingBuilding(row, col)

\* C3: a deployUnit request is answered with an error whenever the phase is not
\* setup, the type has no remaining troops (or was never supplied), or the
\* position is off the grid, outside the deploy band or on a standing building;
\* the units, the remaining counts, the buildings, the tick and the phase are
\* then unchanged.
C3_DeployRejected ==
    [][ \A unitType \in DeployTypes, pos \in DeployPositions :
          (handleDeployUnit(unitType, pos[1], pos[2])
              /\ MustReject(unitType, pos[1], pos[2]))
          => /\ reply' \in ErrorCodes
             /\ simulation'.units = simulation.units
             /\ state'.units = state.units
             /\ remainingTroops' = remainingTroops
             /\ simulation'.buildings = simulation.buildings
             /\ simulation'.tick = simulation.tick
             /\ state'.phase = state.phase ]_vars

\* a position was refused in setup although troops of the type remained
C3_Witness ==
    /\ state.phase = "setup"
    /\ reply = "INVALID_POSITION"

\* C4: an accepted deployUnit request appends exactly one unit (idle, at the
\* requested position, no target, full HP), takes 1 from the remaining count of
\* its type and leaves the other units, the other counts, the buildings, the
\* tick and the phase unchanged.
C4_DeployAccepted ==
    [][ \A unitType \in DeployTypes, pos \in DeployPositions :
          (handleDeployUnit(unitType, pos[1], pos[2]) /\ reply' \notin ErrorCodes)
          => /\ state.phase = "setup"
             /\ Len(simulation'.units) = Len(simulation.units) + 1
             /\ SubSeq(simulation'.units, 1, Len(simulation.units)) = simulation.units
             /\ LET unit == simulation'.units[Len(simulation'.units)]
                IN  /\ unit.type = unitType
                    /\ unit.state = "idle"
                    /\ unit.row = pos[1] * 1000
                    /\ unit.col = pos[2] * 1000
                    /\ unit.targetId = NoTarget
                    /\ unit.hp = unit.maxHp
                    /\ unit.hp = UNITS[unitType].hp
             /\ DOMAIN remainingTroops' = DOMAIN remainingTroops
             /\ \A t \in DOMAIN remainingTroops :
                   remainingTroops'[t] =
                       IF t = unitType THEN remainingTroops[t] - 1
                                       ELSE remainingTroops[t]
             /\ simulation'.buildings = simulation.buildings
             /\ simulation'.tick = simulation.tick
             /\ state'.phase = state.phase ]_vars

\* two units were deployed and a count went from 1 to 0
C4_Witness ==
    /\ state.phase = "setup"
    /\ Len(simulation.units) = 2
    /\ \E t \in DOMAIN remainingTroops : remainingTroops[t] = 0
    /\ reply = "none"

\* C5: the remaining count of every unit type is never negative and never
\* increases.
C5_TroopsNeverNegative ==
    [][ \A t \in DOMAIN remainingTroops :
          /\ remainingTroops[t] >= 0
          /\ t \in DOMAIN remainingTroops'
          /\ remainingTroops'[t] >= 0
          /\ remainingTroops'[t] <= remainingTroops[t] ]_vars

\* a type was used up and a further deploy of it was refused
C5_Witness ==
    /\ reply = "NO_TROOPS"
    /\ \E t \in DOMAIN remainingTroops, i \in 1..Len(simulation.units) :
          remainingTroops[t] = 0 /\ simulation.units[i].type = t

\* C6: startBattle is ignored (phase stays setup, no tick loop) unless a unit
\* has been deployed; a running session holds at least one unit; startBattle in
\* setup with a unit moves the phase to running.
C6_StartNeedsUnit ==
    [][ /\ state'.phase = "running" => Len(simulation'.units) >= 1
        /\ (startBattle /\ state.phase = "setup")
           => IF Len(simulation.units) = 0
              THEN state'.phase = "setup" /\ ~tickInterval'
              ELSE state'.phase = "running" /\ tickInterval' ]_vars

\* the battle has just been started
C6_Witness ==
    /\ state.phase = "running"
    /\ tickInterval
    /\ simulation.tick = 0
    /\ Len(simulation.units) >= 1

\* C7: once the phase is running or ended the units of the simulation, and
\* their order, never change.
C7_UnitsFixedAfterSetup ==
    [][ state.phase \in {"running", "ended"}
        => /\ UnitIds(simulation') = UnitIds(simulation)
           /\ Len(state'.units) = Len(state.units) ]_vars

\* a deploy request arrived while the battle was running
C7_Witness ==
    /\ state.phase = "running"
    /\ simulation.tick > 0
    /\ reply = "INVALID_PHASE"

\* the three conditions, each sufficient on its own
OverAsClaimed(sim) ==
    \/ \A i \in 1..Len(sim.buildings) : sim.buildings[i].destroyed
    \/ ~ \E i \in 1..Len(sim.units) : sim.units[i].state # "dead"
    \/ sim.tick >= BATTLE_MAX_DURATION * BATTLE_TICK_RATE

\* C8: isBattleOver holds exactly when every building is destroyed, or no unit
\* is in a non-dead state, or the tick budget is used up; a running session
\* ends on the first processed tick after which isBattleOver holds and stays
\* running otherwise.
C8_BattleOverConditions ==
    [][ /\ isBattleOver(simulation) <=> OverAsClaimed(simulation)
        /\ isBattleOver(simulation') <=> OverAsClaimed(simulation')
        /\ (TickProcessed /\ state.phase = "running")
           => IF isBattleOver(simulation')
              THEN state'.phase = "ended"
              ELSE state'.phase = "running" ]_vars

\* ended by the tick budget alone: a building stands and the units live
C8_Witness ==
    /\ state.phase = "ended"
    /\ simulation.tick = BATTLE_MAX_DURATION * BATTLE_TICK_RATE
    /\ ~AllBuildingsDestroyed(simulation)
    /\ \E i \in 1..Len(simulation.units) : simulation.units[i].state # "dead"

\* C9: while the timer keeps firing, every session that enters running
\* reaches ended with no further client message, after at most
\* BATTLE_MAX_DURATION * BATTLE_TICK_RATE processed ticks.
C9_BattleTerminates ==
    /\ [](state.phase = "running" => <>(state.phase = "ended"))
    /\ [](simulation.tick <= BATTLE_MAX_DURATION * BATTLE_TICK_RATE)
    /\ [](state.phase = "running"
            => simulation.tick < BATTLE_MAX_DURATION * BATTLE_TICK_RATE)

\* ended on the budget with no building destroyed
C9_Witness ==
    /\ state.phase = "ended"
    /\ simulation.tick = BATTLE_MAX_DURATION * BATTLE_TICK_RATE
    /\ simulation.destroyedBuildingHp = 0
    /\ simulation.totalBuildingHp > 0

\* the outcome of the simulation as it stands
OutcomeOf(sim) ==
    LET percent == calculateDestructionPercent(sim)
    IN  [ destructionPercent |-> percent,
          stars |-> calculateStars(percent),
          loot |-> calculateLoot(percent, defenderResources) ]

SessionUnchanged ==
    UNCHANGED <<state, simulation, remainingTroops, defenderResources, options, handlers,
                tickInterval, unitIdCounter>>

NoResult ==
    [ destructionPercent |-> 0, stars |-> 0,
      loot |-> [food |-> 0, gold |-> 0, oil |-> 0] ]

\* C12: the outcome is computed once, at the step into ended: no result is
\* stored before, the stored result is the outcome of the simulation, and in
\* an ended session no endBattle, disconnect, deployUnit, startBattle or tick
\* changes the result, the phase or the simulation, so that the outcome
\* recomputed from the simulation stays the stored one.
C12_OutcomeComputedOnce ==
    [][ /\ state.phase # "ended" => state.result = NoResult
        /\ state'.phase = "ended" => state'.result = OutcomeOf(simulation')
        /\ state.phase = "ended"
           => /\ state'.result = state.result
              /\ state'.phase = "ended"
              /\ simulation' = simulation ]_vars

\* a deploy request arrived after a battle had ended with three stars
C12_Witness ==
    /\ state.phase = "ended"
    /\ simulation.totalBuildingHp > 0
    /\ state.result.stars = 3
    /\ reply = "INVALID_PHASE"

\* C13: calculateDestructionPercent is floor(destroyedBuildingHp * 100 /
\* totalBuildingHp) when totalBuildingHp > 0 and 100 when totalBuildingHp = 0,
\* and the value is an integer in [0, 100].
C13_PercentIsFloor ==
    state.phase = "ended"
    => /\ state.result.destructionPercent =
              IF simulation.totalBuildingHp = 0 THEN 100
              ELSE (simulation.destroyedBuildingHp * 100)
                       \div simulation.totalBuildingHp
       /\ state.result.destructionPercent \in 0..100

StarsAsClaimed(p) ==
    CASE p >= 100 -> 3
      [] p >= 75 /\ p < 100 -> 2
      [] p >= 50 /\ p < 75 -> 1
      [] p < 50 -> 0

\* C14: for every destruction percent p of 0..100 calculateStars(p) is 3 if
\* p >= 100, 2 if 75 <= p < 100, 1 if 50 <= p < 75 and 0 if p < 50; stars(49) = 0,
\* stars(50) = 1, stars(74) = 1, stars(75) = 2, stars(99) = 2, stars(100) = 3,
\* and stars never decreases as p grows.
C14_StarsByThreshold ==
    state.phase = "ended"
    => LET p == state.result.destructionPercent
       IN  /\ p \in 0..100
           /\ state.result.stars = StarsAsClaimed(p)
           /\ p = 49 => state.result.stars = 0
           /\ p = 50 => state.result.stars = 1
           /\ p = 74 => state.result.stars = 1
           /\ p = 75 => state.result.stars = 2
           /\ p = 99 => state.result.stars = 2
           /\ p = 100 => state.result.stars = 3
           /\ \A q \in 0..p : calculateStars(q) <= state.result.stars

\* a result returned right on the two-star threshold
C14_Witness ==
    /\ state.phase = "ended"
    /\ state.result.destructionPercent = 75
    /\ state.result.stars = 2

\* C15: for each of food, gold and oil, every destruction percent p of 0..100
\* and every defender amount r >= 0, the loot is floor(r * p / 500), hence at
\* most 20% of r.
C15_LootIsFloor ==
    state.phase = "ended"
    => LET p == state.result.destructionPercent
       IN  /\ state.result.loot.food = (defenderResources.food * p) \div 500
           /\ state.result.loot.gold = (defenderResources.gold * p) \div 500
           /\ state.result.loot.oil = (defenderResources.oil * p) \div 500
           /\ state.result.loot.food * 5 <= defenderResources.food
           /\ state.result.loot.gold * 5 <= defenderResources.gold
           /\ state.result.loot.oil * 5 <= defenderResources.oil

\* C16: the loot at 0% destruction is 0 of every resource, and for fixed
\* defender resources the loot of every resource never decreases as the
\* destruction percent grows.
C16_LootMonotone ==
    state.phase = "ended"
    => LET p == state.result.destructionPercent
       IN  /\ p = 0 => state.result.loot = [food |-> 0, gold |-> 0, oil |-> 0]
           /\ \A q \in 0..p :
                 LET lower == calculateLoot(q, defenderResources)
                 IN  /\ lower.food <= state.result.loot.food
                     /\ lower.gold <= state.result.loot.gold
                     /\ lower.oil <= state.result.loot.oil

\* nothing destroyed of a base worth MaxTotalHp, the defender holding 1000 food
C16_Witness ==
    /\ state.phase = "ended"
    /\ simulation.totalBuildingHp > 0
    /\ state.result.destructionPercent = 0
    /\ defenderResources.food = 1000
    /\ state.result.loot.food = 0

\* the simulation of the farm at (5, 5) with one warrior, deployed at (0, 10),
\* the only position of RunDeployPositions that is accepted
FarmAndOneWarrior ==
    /\ Len(simulation.buildings) = 1
    /\ simulation.buildings[1].type = "farm"
    /\ simulation.buildings[1].row = 5
    /\ simulation.buildings[1].col = 5
    /\ simulation.buildings[1].maxHp = 500
    /\ Len(simulation.units) = 1
    /\ simulation.units[1].type = "warrior"

\* C17: with one farm of 500 HP at (5, 5) and one warrior deployed at (0, 10),
\* running ticks until isBattleOver ends before the tick budget with the farm
\* destroyed, destroyedBuildingHp = 500, destructionPercent = 100, stars = 3
\* and loot = floor(resource * 1.0 * 0.2) of each resource.
C17_FarmAndWarrior ==
    FarmAndOneWarrior
    => /\ simulation.tick < BATTLE_MAX_DURATION * BATTLE_TICK_RATE
             \/ state.phase = "ended"
       /\ state.phase = "ended"
          => /\ simulation.tick < BATTLE_MAX_DURATION * BATTLE_TICK_RATE
             /\ simulation.buildings[1].destroyed
             /\ simulation.buildings[1].hp = 0
             /\ simulation.destroyedBuildingHp = 500
             /\ state.result.destructionPercent = 100
             /\ state.result.stars = 3
             /\ state.result.loot.food = defenderResources.food \div 5
             /\ state.result.loot.gold = defenderResources.gold \div 5
             /\ state.result.loot.oil = defenderResources.oil \div 5

\* the run of the farm and the warrior has returned
C17_Witness ==
    /\ FarmAndOneWarrior
    /\ state.phase = "ended"
    /\ simulation.tick > 0
    /\ state.result.stars = 3

\* the simulation as unit i finds it in a tick: the alive units before i are
\* processed
RECURSIVE ProcessedBefore(_, _, _, _)
ProcessedBefore(sim, alive, k, i) ==
    IF k >= i THEN sim
    ELSE IF k \in alive
         THEN ProcessedBefore(ProcessUnit(sim, k), alive, k + 1, i)
         ELSE ProcessedBefore(sim, alive, k + 1, i)

\* C18: a unit that is processed when no building stands (the base is empty or
\* every building is destroyed, also earlier in the same tick) is left idle,
\* with no target and where it was; it never enters moving or attacking.
C18_IdleWithoutBuildings ==
    [][ TickProcessed
        => \A i \in 1..Len(simulation.units) :
              AllBuildingsDestroyed(
                  ProcessedBefore(simulation, 1..Len(simulation.units), 1, i))
              => /\ simulation'.units[i].state = "idle"
                 /\ simulation'.units[i].targetId = NoTarget
                 /\ simulation'.units[i].targetRow = NoCoord
                 /\ simulation'.units[i].targetCol = NoCoord
                 /\ simulation'.units[i].row = simulation.units[i].row
                 /\ simulation'.units[i].col = simulation.units[i].col ]_vars

\* the last building fell to an earlier unit of the tick and a later unit,
\* which had walked out of the deploy zone towards it, was left idle
C18_Witness ==
    /\ simulation.totalBuildingHp > 0
    /\ AllBuildingsDestroyed(simulation)
    /\ \E i, j \in 1..Len(simulation.units) :
          /\ i < j
          /\ simulation.units[i].state = "attacking"
          /\ simulation.units[j].state = "idle"
          /\ simulation.units[j].row >= DEPLOY_ZONE_DEPTH * 1000

\* C19: between ticks, in every snapshot and in the ended state, every unit
\* whose target is set names a building that is not destroyed, also when the
\* target was destroyed by another unit in the same tick.
C19_TargetsStanding ==
    /\ \A i \in 1..Len(simulation.units) :
          simulation.units[i].targetId # NoTarget
          => \E b \in 1..Len(simulation.buildings) :
                /\ simulation.buildings[b].id = simulation.units[i].targetId
                /\ ~simulation.buildings[b].destroyed
    /\ \A i \in 1..Len(state.units) :
          state.units[i].targetId # ""
          => \E b \in 1..Len(state.buildings) :
                /\ state.buildings[b].id = state.units[i].targetId
                /\ ~state.buildings[b].destroyed

\* C20: every building's HP is within 0..maxHp, a building starts at maxHp,
\* and a building's HP never increases.
C20_BuildingHpBounded ==
    [][ /\ Len(simulation'.buildings) = Len(simulation.buildings)
        /\ \A b \in 1..Len(simulation.buildings) :
              /\ simulation.buildings[b].hp >= 0
              /\ simulation.buildings[b].hp <= simulation.buildings[b].maxHp * 1000
              /\ simulation.tick = 0
                 => simulation.buildings[b].hp = simulation.buildings[b].maxHp * 1000
              /\ simulation'.buildings[b].hp >= 0
              /\ simulation'.buildings[b].hp <= simulation.buildings[b].hp
              /\ simulation'.buildings[b].maxHp = simulation.buildings[b].maxHp
        /\ \A b \in 1..Len(state'.buildings) :
              /\ state'.buildings[b].hp >= 0
              /\ state'.buildings[b].hp <= state'.buildings[b].maxHp * 1000 ]_vars

\* one building has fallen to a catapult and another is damaged
C20_Witness ==
    \E a, b \in 1..Len(simulation.buildings) :
        /\ simulation.buildings[a].destroyed
        /\ simulation.buildings[a].hp = 0
        /\ simulation.buildings[b].hp > 0
        /\ simulation.buildings[b].hp < simulation.buildings[b].maxHp * 1000
        /\ \E i \in 1..Len(simulation.units) : simulation.units[i].type = "catapult"


\* a building the session-creation time finds still under construction: it has
\* a construction-end timestamp and that timestamp lies ahead
UnderConstruction(b, now) == b.constructionEndsAt # 0 /\ b.constructionEndsAt > now

RECURSIVE CompletedOf(_, _)
CompletedOf(base, now) ==
    IF base = <<>> THEN <<>>
    ELSE IF UnderConstruction(Head(base), now) THEN CompletedOf(Tail(base), now)
    ELSE <<Head(base)>> \o CompletedOf(Tail(base), now)

RECURSIVE SumMaxHp(_)
SumMaxHp(buildings) ==
    IF buildings = <<>> THEN 0
    ELSE Head(buildings).maxHp + SumMaxHp(Tail(buildings))

\* C21: once a session is created, its simulation holds exactly the defender's
\* buildings that are not under construction at creation time (those without a
\* construction-end timestamp or with an expired one), in order, each with
\* hp = maxHp and not destroyed, and totalBuildingHp is the sum of their maxHp
C21_CompletedBuildingsOnly ==
    state # Null =>
        LET completed == CompletedOf(options.base, options.now)
        IN  /\ Len(simulation.buildings) = Len(completed)
            /\ \A i \in 1..Len(completed) :
                  /\ simulation.buildings[i].id = completed[i].id
                  /\ simulation.buildings[i].hp = simulation.buildings[i].maxHp * 1000
                  /\ ~simulation.buildings[i].destroyed
            /\ simulation.totalBuildingHp = SumMaxHp(simulation.buildings)

\* the claim's words on a composition: total within 1..50, known types, no
\* negative count
AcceptableTroops(troops) ==
    /\ SumCounts(troops) >= 1
    /\ SumCounts(troops) <= 50
    /\ \A i \in 1..Len(troops) : troops[i].type \in DOMAIN UNITS
    /\ \A i \in 1..Len(troops) : troops[i].count >= 0

\* C22: onCreate creates the session iff the composition has a total of 1..50,
\* only known unit types and no negative count; otherwise it throws and the
\* room has no simulation, no troop counts and no message handlers
C22_TroopsValidated ==
    /\ state # Null => AcceptableTroops(options.troops)
    /\ reply = Thrown =>
          /\ ~AcceptableTroops(options.troops)
          /\ state = Null
          /\ simulation = Null
          /\ remainingTroops = <<>>
          /\ handlers = {}
    /\ state = Null /\ reply = "none" => ENABLED onCreate

\* a composition within the budget and of known types is refused for a
\* negative count
C22_Witness ==
    /\ reply = Thrown
    /\ SumCounts(options.troops) \in 1..MAX_TROOPS
    /\ \A i \in 1..Len(options.troops) : options.troops[i].type \in UnitTypes
    /\ \E i \in 1..Len(options.troops) : options.troops[i].count < 0


\* C26: the ended phase is entered only from running
C26_EndedOnlyFromRunning ==
    [][ (state'.phase = "ended" /\ state.phase # "ended")
            => state.phase = "running" ]_vars

\* C24: the interval is set exactly while the phase is running, and a tick
\* callback that runs when the interval is not set (the phase is setup or
\* ended) changes neither the simulation nor the snapshot
C24_LateTickInert ==
    /\ [](tickInterval <=> state.phase = "running")
    /\ [][ (~tickInterval /\ TickCallback)
              => UNCHANGED <<state, simulation>> ]_vars

\* a battle ended by the client or a disconnect, ticks processed, buildings
\* still standing: a further tick would have work to do
C24_Witness ==
    /\ state.phase = "ended"
    /\ ~tickInterval
    /\ simulation.tick > 0
    /\ ~isBattleOver(simulation)
    /\ processTick(simulation) # simulation


\* a step in which a deployUnit message was accepted
DeployAccepted == Len(simulation'.units) = Len(simulation.units) + 1

\* the snapshot st lists the units of sim, in order, with their position, state
\* and target
UnitsAgree(st, sim) ==
    /\ Len(st.units) = Len(sim.units)
    /\ \A i \in 1..Len(sim.units) :
          /\ st.units[i].id = sim.units[i].id
          /\ st.units[i].row = sim.units[i].row
          /\ st.units[i].col = sim.units[i].col
          /\ st.units[i].state = sim.units[i].state
          /\ st.units[i].targetId = sim.units[i].targetId

BuildingsAgree(st, sim) ==
    /\ Len(st.buildings) = Len(sim.buildings)
    /\ \A i \in 1..Len(sim.buildings) :
          /\ st.buildings[i].id = sim.buildings[i].id
          /\ st.buildings[i].hp = sim.buildings[i].hp
          /\ st.buildings[i].destroyed = sim.buildings[i].destroyed

\* timeRemaining = max(0, BATTLE_MAX_DURATION - tick / BATTLE_TICK_RATE), in ms
ClockAgrees(st, sim) ==
    /\ st.tick = sim.tick
    /\ st.timeRemaining * BATTLE_TICK_RATE =
          Max(0, BATTLE_MAX_DURATION * 1000 * BATTLE_TICK_RATE - sim.tick * 1000)

PercentAgrees(st, sim) ==
    st.destructionPercent = calculateDestructionPercent(sim)

BuildingWithId(buildings, id) ==
    IF \E b \in 1..Len(buildings) : buildings[b].id = id
    THEN CHOOSE b \in 1..Len(buildings) : buildings[b].id = id
    ELSE 0

\* C27: over a tick, a unit that held a target holds the same one afterwards
\* unless that building is destroyed by then, also when another standing
\* building is nearer to the unit
C27_StickyTarget ==
    [][ TickProcessed
        => \A i \in 1..Len(simulation.units) :
              /\ simulation.units[i].targetId # NoTarget
              /\ simulation'.units[i].targetId # simulation.units[i].targetId
              => LET b == BuildingWithId(simulation'.buildings,
                                         simulation.units[i].targetId)
                 IN  b # 0 /\ simulation'.buildings[b].destroyed ]_vars

\* after two ticks a unit still holds a standing building although another
\* standing building is nearer
C27_Witness ==
    /\ simulation.tick = MaxUnitTicks
    /\ \E i \in 1..Len(simulation.units) :
          LET unit == simulation.units[i]
              held == BuildingWithId(simulation.buildings, unit.targetId)
          IN  /\ unit.targetId # NoTarget
              /\ held # 0
              /\ ~simulation.buildings[held].destroyed
              /\ \E b \in 1..Len(simulation.buildings) :
                    /\ ~simulation.buildings[b].destroyed
                    /\ CenterDistSq(unit, simulation.buildings[b])
                          < CenterDistSq(unit, simulation.buildings[held])

\* the candidates in the claim's words: the standing defensive buildings for a
\* unit preferring defensive ones, when there is one; else all standing ones
ClaimedCandidates(unit, buildings) ==
    LET standing == {b \in 1..Len(buildings) : ~buildings[b].destroyed}
        defensive == {b \in standing : BUILDINGS[buildings[b].type].isDefensive}
    IN  IF UNITS[unit.type].preferredTarget = "defensive" /\ defensive # {}
        THEN defensive ELSE standing

FootprintDistSq(unit, building) ==
    LET nearestRow ==
            Max(building.row * 1000,
                Min(unit.row,
                    (building.row + BUILDINGS[building.type].height) * 1000))
        nearestCol ==
            Max(building.col * 1000,
                Min(unit.col,
                    (building.col + BUILDINGS[building.type].width) * 1000))
    IN  gridDistanceSq(unit.row, unit.col, nearestRow, nearestCol)

\* C29: isInRange(unit, building) is true exactly when the distance from the
\* unit to the nearest point of the building's footprint rectangle is at most
\* the unit's range, on whichever side of the building the unit is
C29_RangeByFootprint ==
    \A i \in 1..Len(simulation.units), b \in 1..Len(simulation.buildings) :
        isInRange(simulation.units[i], simulation.buildings[b])
        <=> FootprintDistSq(simulation.units[i], simulation.buildings[b])
               <= (UNITS[simulation.units[i].type].range * 1000)
                    * (UNITS[simulation.units[i].type].range * 1000)


Abs(x) == IF x < 0 THEN 0 - x ELSE x

\* after is where the claim puts a unit that was at before and moved one step
\* towards (targetRow, targetCol).  Distances are compared as whole numbers of
\* 1/1000 tile, so "by exactly s" is checked to within 3/1000 tile.
MovedAsClaimed(before, after, targetRow, targetCol) ==
    LET s == StepPerTick(before.type)
        dSq == gridDistanceSq(before.row, before.col, targetRow, targetCol)
        d == ISqrt(dSq)
        dAfter == ISqrt(gridDistanceSq(after.row, after.col, targetRow, targetCol))
        dy == targetRow - before.row
        dx == targetCol - before.col
        movedRow == after.row - before.row
        movedCol == after.col - before.col
    IN  IF dSq <= s * s
        THEN after.row = targetRow /\ after.col = targetCol
        ELSE /\ Abs(dAfter - (d - s)) <= 3
             /\ dAfter < d
             \* on the segment: the same direction, not past the target
             /\ movedRow * dy >= 0 /\ Abs(movedRow) <= Abs(dy)
             /\ movedCol * dx >= 0 /\ Abs(movedCol) <= Abs(dx)
             /\ Abs(movedRow * dx - movedCol * dy) <= Abs(dx) + Abs(dy)

\* C30: one step of movement leaves a unit at distance max(0, d - s) from the
\* point it moves to, on the straight segment to it: on the point when
\* d <= s, else nearer by s; it goes neither past the point nor away from it.
\* This holds for moveUnitTowards called on its own and for the unit a tick
\* leaves moving towards its target's center.
C30_StepTowardsCenter ==
    [][ /\ (state.phase = "setup" /\ state'.phase = "ended")
           => MovedAsClaimed(simulation.units[1], simulation'.units[1],
                             options.targetRow, options.targetCol)
        /\ TickProcessed
           => \A i \in 1..Len(simulation.units) :
                 simulation'.units[i].state = "moving"
                 => LET b == BuildingWithId(simulation'.buildings,
                                            simulation'.units[i].targetId)
                        center == getBuildingCenter(simulation'.buildings[b])
                    IN  MovedAsClaimed(simulation.units[i], simulation'.units[i],
                                       center.row, center.col) ]_vars

\* moveUnitTowards put a unit on a point that is no unit's starting position
C30_Witness ==
    /\ state.phase = "ended"
    /\ simulation.units[1].row = options.targetRow
    /\ simulation.units[1].col = options.targetCol
    /\ options.targetCol \notin UnitCoords


\* C25: whatever other sessions of the process do, the session holds what it
\* holds when run alone; in particular its units carry the ids they get when
\* it runs alone, where the k-th unit deployed is numbered k - 1
C25_SessionsShareNothing ==
    \A i \in 1..Len(simulation.units) :
        /\ simulation.units[i].id = i - 1
        /\ state.units[i].id = i - 1


\* the building unit aims at in a tick, as an index: the one it holds when that
\* still stands, else the one findTarget returns; 0 when there is none
AimedAt(unit, buildings) ==
    IF HeldTarget(unit, buildings) # 0 THEN HeldTarget(unit, buildings)
    ELSE findTarget(unit, buildings)

\* damage * attackSpeed * deltaTime of the claim, in 1/1000 HP
DamagePerTick(type) ==
    (UNITS[type].damage * UNITS[type].attackSpeed10 * 100) \div BATTLE_TICK_RATE

\* in range as the specification defines it: the nearest point of the
\* target's footprint rectangle is at most the unit's range away
InFootprintRange(unit, building) ==
    FootprintDistSq(unit, building)
        <= (UNITS[unit.type].range * 1000) * (UNITS[unit.type].range * 1000)

\* C31: in a tick, a unit in range of its target is set to attacking and takes
\* damage * attackSpeed * deltaTime off the target's HP, not below zero; a unit
\* out of range is set to moving and changes no building; when the HP reaches
\* zero the building is marked destroyed, its maxHp is added to
\* destroyedBuildingHp once and the unit's target is cleared
C31_AttackInRange ==
    [][ TickProcessed
        => \A i \in 1..Len(simulation.units) :
              LET alive == 1..Len(simulation.units)
                  before == ProcessedBefore(simulation, alive, 1, i)
                  after == ProcessedBefore(simulation, alive, 1, i + 1)
                  unit == before.units[i]
                  t == AimedAt(unit, before.buildings)
              IN  t # 0
                  => IF InFootprintRange(unit, before.buildings[t])
                     THEN /\ after.units[i].state = "attacking"
                          /\ after.buildings[t].hp =
                                Max(0, before.buildings[t].hp
                                         - DamagePerTick(unit.type))
                          /\ after.buildings[t].destroyed
                                <=> after.buildings[t].hp = 0
                          /\ after.destroyedBuildingHp =
                                IF after.buildings[t].hp = 0
                                THEN before.destroyedBuildingHp
                                       + before.buildings[t].maxHp
                                ELSE before.destroyedBuildingHp
                          /\ after.buildings[t].hp = 0
                                => after.units[i].targetId = NoTarget
                     ELSE /\ after.units[i].state = "moving"
                          /\ after.buildings = before.buildings
                          /\ after.destroyedBuildingHp
                                = before.destroyedBuildingHp ]_vars


\* what only a tick may change: the tick counter, the buildings' HP and
\* destroyed flags, and the positions of the units already deployed
Battlefield(sim) ==
    [ tick |-> sim.tick,
      buildings |-> [b \in 1..Len(sim.buildings) |->
                       <<sim.buildings[b].hp, sim.buildings[b].destroyed>>],
      positions |-> [i \in 1..Len(sim.units) |->
                       <<sim.units[i].row, sim.units[i].col>>] ]

\* C32: the tick counter is 0 throughout setup and changes only by a tick
\* processed while the phase is running, which adds exactly 1; building HP,
\* destroyed flags and the positions of deployed units change in such ticks
\* only, so deployUnit, startBattle, endBattle, a disconnect and a timer
\* callback outside running leave them as they are
C32_OnlyTicksAdvance ==
    /\ [](state.phase = "setup" => simulation.tick = 0)
    /\ [][ \/ /\ simulation'.tick = simulation.tick
              /\ Battlefield([simulation' EXCEPT
                                 !.units = SubSeq(@, 1, Len(simulation.units))])
                    = Battlefield(simulation)
           \/ /\ simulation'.tick = simulation.tick + 1
              /\ state.phase = "running"
              /\ TickCallback
              /\ simulation'.units = processTick(simulation).units
              /\ simulation'.buildings = processTick(simulation).buildings ]_vars

\* a running battle in which ticks have moved a unit and worn a building down
C32_Witness ==
    /\ state.phase = "running"
    /\ simulation.tick > 1
    /\ \E i \in 1..Len(simulation.units) : simulation.units[i].state = "attacking"
    /\ \E b \in 1..Len(simulation.buildings) :
          simulation.buildings[b].hp < simulation.buildings[b].maxHp * 1000

\* C33: destroyedBuildingHp is the sum of maxHp over the destroyed buildings, a
\* building is destroyed iff its hp is 0, and a destroyed building stays
\* destroyed
C33_DestroyedHpIsSum ==
    /\ [](/\ simulation.destroyedBuildingHp
                = SumMaxHp(SelectSeq(simulation.buildings, LAMBDA b : b.destroyed))
          /\ \A b \in 1..Len(simulation.buildings) :
                simulation.buildings[b].destroyed <=> simulation.buildings[b].hp = 0)
    /\ [][ \A b \in 1..Len(simulation.buildings) :
              simulation.buildings[b].destroyed
              => simulation'.buildings[b].destroyed ]_vars

\* one building of several is destroyed and another has lost HP
C33_Witness ==
    \E a, b \in 1..Len(simulation.buildings) :
        /\ simulation.buildings[a].destroyed
        /\ ~simulation.buildings[b].destroyed
        /\ simulation.buildings[b].hp < simulation.buildings[b].maxHp * 1000

\* C34: every unit keeps hp = maxHp and is idle, moving or attacking, never
\* dead; so in a running session, which has a unit, the 'no unit left alive'
\* condition of isBattleOver is false
C34_UnitsUnharmed ==
    /\ \A i \in 1..Len(simulation.units) :
          /\ simulation.units[i].hp = simulation.units[i].maxHp
          /\ simulation.units[i].hp = UNITS[simulation.units[i].type].hp
          /\ simulation.units[i].state \in {"idle", "moving", "attacking"}
    /\ state.phase = "running"
          => \E i \in 1..Len(simulation.units) : simulation.units[i].state # "dead"
    /\ \A i \in 1..Len(state.units) : state.units[i].hp = state.units[i].maxHp

\* a unit has been attacking for the whole battle and the budget ran out
C34_Witness ==
    /\ state.phase = "ended"
    /\ simulation.tick = maxTicks
    /\ \E i \in 1..Len(simulation.units) : simulation.units[i].state = "attacking"

\* C35: the tick counter never exceeds BATTLE_MAX_DURATION * BATTLE_TICK_RATE
\* = 3600, and it is below that while the phase is running: the tick that
\* reaches the budget ends the session
C35_TickBudget ==
    /\ maxTicks = 3600
    /\ simulation.tick <= maxTicks
    /\ state.tick <= maxTicks
    /\ state.phase = "running" => simulation.tick < maxTicks

\* the session ended on the tick that reached the budget, a building standing
C35_Witness ==
    /\ state.phase = "ended"
    /\ simulation.tick = maxTicks
    /\ ~AllBuildingsDestroyed(simulation)
    /\ state.timeRemaining = 0

NoBuildingDestroyed(sim) ==
    \A b \in 1..Len(sim.buildings) : ~sim.buildings[b].destroyed

\* C37: for a defender with a completed building, the destruction percent is
\* 100, and the stars 3, iff every building is destroyed; it is 0 while no
\* building is destroyed, whatever HP the buildings have lost; the same holds
\* of the snapshot and of the result of an ended session
C37_FullOnlyWhenAllDestroyed ==
    simulation.totalBuildingHp > 0
    => LET percent == calculateDestructionPercent(simulation)
       IN  /\ percent = 100 <=> AllBuildingsDestroyed(simulation)
           /\ percent = 100 => calculateStars(percent) = 3
           /\ NoBuildingDestroyed(simulation) => percent = 0
           /\ state.destructionPercent = 100 <=> AllBuildingsDestroyed(simulation)
           /\ NoBuildingDestroyed(simulation) => state.destructionPercent = 0
           /\ state.phase = "ended"
                 => /\ state.result.destructionPercent = 100
                          <=> AllBuildingsDestroyed(simulation)
                    /\ state.result.stars = 3
                          <=> AllBuildingsDestroyed(simulation)

\* an ended session with every building destroyed, and so 100% and 3 stars
C37_Witness ==
    /\ state.phase = "ended"
    /\ Len(simulation.buildings) > 0
    /\ AllBuildingsDestroyed(simulation)
    /\ state.result.destructionPercent = 100
    /\ state.result.stars = 3

\* C38: whenever the phase is ended, the snapshot's top-level
\* destructionPercent equals result.destructionPercent
C38_EndedPercentAgrees ==
    state.phase = "ended"
    => state.destructionPercent = state.result.destructionPercent

\* the count remainingTroops.set recorded for a type at creation: that of the
\* last slot naming it, 0 when no slot does
Recorded(unitType) ==
    LET slots == {i \in 1..Len(options.troops) : options.troops[i].type = unitType}
    IN  IF slots = {} THEN 0
        ELSE options.troops[CHOOSE i \in slots : \A j \in slots : j <= i].count

DeployedOf(unitType) ==
    Cardinality({i \in 1..Len(simulation.units) :
                    simulation.units[i].type = unitType})

\* C39: for every unit type the units of that type in the simulation plus the
\* remaining count equal the count recorded at creation, and the simulation
\* never has more units than the troops validated at creation, at most
\* MAX_TROOPS = 50
C39_TroopConservation ==
    /\ \A unitType \in UnitTypes :
          DeployedOf(unitType) + Remaining(unitType) = Recorded(unitType)
    /\ Len(simulation.units) <= SumCounts(options.troops)
    /\ SumCounts(options.troops) <= MAX_TROOPS
    /\ MAX_TROOPS = 50

\* every troop of two types is deployed and nothing remains
C39_Witness ==
    /\ \E i, j \in 1..Len(simulation.units) :
          simulation.units[i].type # simulation.units[j].type
    /\ \A unitType \in UnitTypes : Remaining(unitType) = 0

Rewarded(result) ==
    \/ result.stars > 0
    \/ result.loot.food > 0
    \/ result.loot.gold > 0
    \/ result.loot.oil > 0

\* C40: for a defender with a completed building, a result with a star or any
\* loot implies that a building was destroyed, and buildings are destroyed only
\* by ticks processed while running; a session ended before any tick reports
\* 0% destruction, 0 stars and zero loot
C40_NoRewardWithoutDestruction ==
    /\ [](simulation.totalBuildingHp > 0 /\ state.phase = "ended"
            => /\ Rewarded(state.result)
                    => /\ ~NoBuildingDestroyed(simulation)
                       /\ simulation.tick > 0
               /\ simulation.tick = 0
                    => /\ state.result.destructionPercent = 0
                       /\ state.result.stars = 0
                       /\ state.result.loot = [food |-> 0, gold |-> 0, oil |-> 0])
    /\ [][ (\E b \in 1..Len(simulation.buildings) :
                /\ ~simulation.buildings[b].destroyed
                /\ simulation'.buildings[b].destroyed)
           => /\ state.phase = "running"
              /\ TickProcessed
              /\ \E i \in 1..Len(simulation.units) :
                    simulation'.units[i].state = "attacking" ]_vars

\* a defender with buildings and resources to loot, ended by a message before
\* any tick: nothing destroyed, no star, no loot
C40_Witness ==
    /\ state.phase = "ended"
    /\ simulation.tick = 0
    /\ Len(simulation.buildings) > 0
    /\ defenderResources.gold > 0
    /\ Len(simulation.units) > 0
    /\ ~Rewarded(state.result)

\* the unit is strictly inside the building's footprint
InsideFootprint(unit, building) ==
    /\ unit.row > building.row * 1000
    /\ unit.row < (building.row + BUILDINGS[building.type].height) * 1000
    /\ unit.col > building.col * 1000
    /\ unit.col < (building.col + BUILDINGS[building.type].width) * 1000

\* C36: units navigate around obstacles: a tick never moves a unit that is
\* walking to its target into the footprint of a standing building other than
\* that target
C36_AvoidsObstacles ==
    [][ TickProcessed
        => \A i \in 1..Len(simulation.units), b \in 1..Len(simulation.buildings) :
              /\ simulation'.units[i].state = "moving"
              /\ ~simulation'.buildings[b].destroyed
              /\ simulation'.buildings[b].id # simulation'.units[i].targetId
              /\ ~InsideFootprint(simulation.units[i], simulation.buildings[b])
              => ~InsideFootprint(simulation'.units[i], simulation'.buildings[b])
      ]_vars

=============================================================================
